---- MODULE Spec2Model ----
(***************************************************************************)
(* Model of voice_to_markdown: AudioRecorder.record_to_file (recorder.py)  *)
(* and the interactive loop of main (cli.py); the two transcribers         *)
(* (transcribers.py) and _transcribe_and_display (cli.py).                 *)
(*                                                                         *)
(* Threads: the controller (the main thread, running main and              *)
(* record_to_file), the PortAudio callback (runs while an input stream is  *)
(* open), and one daemon listener thread per session (wait_for_stop).      *)
(* A key event is delivered to one of the threads blocked in               *)
(* click.getchar(); CTRL+C read by getchar raises KeyboardInterrupt in the *)
(* reading thread, a SIGINT raises it in the main thread.                  *)
(***************************************************************************)
EXTENDS Integers, Sequences, FiniteSets, TLC

\* ---------------------------------------------------------------- bounds
MaxSessions == 2
MaxChunks == 3
MaxOtherKeys == 1
MaxSegments == 1

\* Chunk lengths the device delivers (1600 and 800 samples, in units of 800).
ChunkLens == {1, 2}

VARIABLES
    pc,            \* position of the controller (main thread)
    session,       \* number of record_to_file calls made so far
    exitStatus,    \* "running", or how the process ended
    error,         \* message of the RecordingError raised by the current call
    stream,        \* the current call's sd.InputStream: none, open, closed
    leaked,        \* input streams of earlier calls that are still open
    audio_queue,   \* queue.Queue of the current call
    frames,        \* frames list of the current call
    held,          \* value returned by audio_queue.get, not yet appended
    stop_event,    \* stop_event of the current call
    cancel_event,  \* cancel_event of the current call
    listener,      \* position of the current call's wait_for_stop thread
    stale,         \* listeners of earlier calls still blocked in getchar,
                   \* counted by the way their call left the with block
    files,         \* calls whose temporary WAV file exists
    audio,         \* samples written by sf.write in the current call
    \* history variables (observations, never read by the program)
    delivered,     \* chunks the callback enqueued in the current call
    lateChunk,     \* a chunk was enqueued after stop_event was set
    signals,       \* signals observed in the current call
    otherKeys,     \* non-SPACE keys read while waiting for the start signal
    swallowedStart,\* the kinds of stale listener that consumed a SPACE while
                   \* the controller waited for the start signal
    \* one run of _transcribe_and_display
    tpc,           \* position inside _transcribe_and_display
    backend,       \* the --backend option: "local" or "openai"
    response,      \* what the backend returned to transcribe
    outcome,       \* what _run_transcription returned or raised
    report,        \* how _transcribe_and_display ended
    transcripts    \* markdown transcripts written by output_path.write_text

\* the recorder and the interactive loop
rvars == <<pc, session, exitStatus, error, stream, leaked, audio_queue,
           frames, held, stop_event, cancel_event, listener, stale, files,
           audio, delivered, lateChunk, signals, otherKeys, swallowedStart>>

\* one transcription
tvars == <<tpc, backend, response, outcome, report, transcripts>>

vars == <<pc, session, exitStatus, error, stream, leaked, audio_queue,
          frames, held, stop_event, cancel_event, listener, stale, files,
          audio, delivered, lateChunk, signals, otherKeys, swallowedStart,
          tvars>>

\* ------------------------------------------------------------- messages
\* A message is the sequence of its words; str.lower() maps each word.
NoError == << >>

MsgImport == <<"sounddevice", "and", "soundfile", "must", "be", "installed.">>

MsgCancelled == <<"Recording", "cancelled", "before", "start.">>

MsgNoAudio ==
    <<"No", "audio", "captured", "before", "stop;", "please", "try", "again", ".">>

\* Texts of the exception the device layer may raise (str(exc)).
DriverTexts == { <<"Device", "unavailable">>,
                 <<"Device", "busy,", "Please", "try", "again", "later">> }

MsgDevice(exc) == <<"Microphone", "recording", "failed:">> \o exc

LowerWord(w) ==
    CASE w = "Please" -> "please"
      [] w = "No" -> "no"
      [] w = "Recording" -> "recording"
      [] w = "Microphone" -> "microphone"
      [] w = "Device" -> "device"
      [] OTHER -> w

Lower(msg) == [i \in 1..Len(msg) |-> LowerWord(msg[i])]

\* needle in haystack
Contains(haystack, needle) ==
    \E i \in 0..(Len(haystack) - Len(needle)) :
        \A j \in 1..Len(needle) : haystack[i + j] = needle[j]

TryAgain == <<"please", "try", "again">>

\* -------------------------------------------------------------- helpers
RECURSIVE Concatenate(_)
\* np.concatenate(frames, axis=0)
Concatenate(fs) == IF fs = << >> THEN << >> ELSE Head(fs) \o Concatenate(Tail(fs))

RECURSIVE SumLens(_)
SumLens(fs) == IF fs = << >> THEN 0 ELSE Len(Head(fs)) + SumLens(Tail(fs))

\* The chunk of n samples the device delivers next: samples are numbered in
\* the order the device produced them.
NextChunk(n) == [i \in 1..n |-> SumLens(delivered) + i]

\* frames.append(chunk)
AppendFrame(fr, c) == Append(fr, c)

\* a stream that is left open when the block is left
StreamExitLeaks(st) == st

\* leaving the "with sd.InputStream(...)" block closes the stream
StreamExit(st) == "closed"

\* a test of frames that never finds it empty
NoFramesNever(fr) == FALSE

\* a test of frames with the condition inverted
NoFramesInverted(fr) == fr # << >>

\* "if not frames"
NoFrames(fr) == fr = << >>

Running == exitStatus = "running"

\* The ways a call leaves the with block while its listener still blocks in
\* getchar: KeyboardInterrupt in the main thread, or an exception.
Abandoned == {"controller_cancel", "device"}

\* How the current call abandoned its listener.
AbandonedBy == IF "device" \in signals THEN "device" ELSE "controller_cancel"

\* The current call has returned or raised: control is back in main.
TornDown == pc \in {"handle", "returned", "transcribe", "idle", "done"}

\* ------------------------------------------------------------------ init
Init ==
    /\ pc = "idle"
    /\ session = 0
    /\ exitStatus = "running"
    /\ error = NoError
    /\ stream = "none"
    /\ leaked = 0
    /\ audio_queue = << >>
    /\ frames = << >>
    /\ held = << >>
    /\ stop_event = FALSE
    /\ cancel_event = FALSE
    /\ listener = "none"
    /\ stale = [o \in Abandoned |-> 0]
    /\ files = {}
    /\ audio = << >>
    /\ delivered = << >>
    /\ lateChunk = FALSE
    /\ signals = {}
    /\ otherKeys = 0
    /\ swallowedStart = {}
    /\ tpc = "none"
    /\ backend = "none"
    /\ response = [kind |-> "none"]
    /\ outcome = [kind |-> "none"]
    /\ report = "none"
    /\ transcripts = 0

\* --------------------------------------------- controller: record_to_file
\* main: "temp_audio = recorder.record_to_file()", a new call with a new
\* queue, new events and a new frames list.
StartSession ==
    /\ Running /\ pc = "idle" /\ session < MaxSessions
    /\ session' = session + 1
    /\ pc' = "import"
    /\ error' = NoError
    /\ audio_queue' = << >> /\ frames' = << >> /\ held' = << >>
    /\ audio' = << >> /\ delivered' = << >> /\ lateChunk' = FALSE
    /\ signals' = {} /\ otherKeys' = 0
    /\ stream' = "none"
    /\ leaked' = leaked + (IF stream = "open" THEN 1 ELSE 0)
    /\ stop_event' = FALSE /\ cancel_event' = FALSE
    /\ listener' = "none"
    /\ stale' = IF listener = "blocked"
                  THEN [stale EXCEPT ![AbandonedBy] = @ + 1]
                  ELSE stale
    /\ UNCHANGED <<exitStatus, files, swallowedStart, tvars>>

\* the imports succeed
ImportOk ==
    /\ Running /\ pc = "import"
    /\ pc' = "wait_start"
    /\ UNCHANGED <<session, exitStatus, error, stream, leaked, audio_queue,
                   frames, held, stop_event, cancel_event, listener, stale,
                   files, audio, delivered, lateChunk, signals, otherKeys,
                   swallowedStart, tvars>>

\* ImportError: raise RecordingError("sounddevice and soundfile must be ...")
ImportFail ==
    /\ Running /\ pc = "import"
    /\ error' = MsgImport
    /\ pc' = "handle"
    /\ UNCHANGED <<session, exitStatus, stream, leaked, audio_queue, frames,
                   held, stop_event, cancel_event, listener, stale, files,
                   audio, delivered, lateChunk, signals, otherKeys,
                   swallowedStart, tvars>>

\* click.getchar() returned " ": break
WaitStartSpace ==
    /\ Running /\ pc = "wait_start"
    /\ pc' = "open"
    /\ UNCHANGED <<session, exitStatus, error, stream, leaked, audio_queue,
                   frames, held, stop_event, cancel_event, listener, stale,
                   files, audio, delivered, lateChunk, signals, otherKeys,
                   swallowedStart, tvars>>

\* click.getchar() returned another key: keep waiting
WaitStartOther ==
    /\ Running /\ pc = "wait_start"
    /\ otherKeys < MaxOtherKeys
    /\ otherKeys' = otherKeys + 1
    /\ UNCHANGED <<pc, session, exitStatus, error, stream, leaked, audio_queue,
                   frames, held, stop_event, cancel_event, listener, stale,
                   files, audio, delivered, lateChunk, signals, swallowedStart,
                   tvars>>

\* a cancel handler that swallows the interrupt and goes on to record
WaitStartCancelBreaks ==
    /\ Running /\ pc = "wait_start"
    /\ signals' = signals \cup {"cancel_before_start"}
    /\ pc' = "open"
    /\ UNCHANGED <<session, exitStatus, error, stream, leaked, audio_queue,
                   frames, held, stop_event, cancel_event, listener, stale,
                   files, audio, delivered, lateChunk, otherKeys,
                   swallowedStart, tvars>>

\* click.getchar() raised KeyboardInterrupt:
\* raise RecordingError("Recording cancelled before start.")
WaitStartCancel ==
    /\ Running /\ pc = "wait_start"
    /\ signals' = signals \cup {"cancel_before_start"}
    /\ error' = MsgCancelled
    /\ pc' = "handle"
    /\ UNCHANGED <<session, exitStatus, stream, leaked, audio_queue, frames,
                   held, stop_event, cancel_event, listener, stale, files,
                   audio, delivered, lateChunk, otherKeys, swallowedStart,
                   tvars>>

\* "with sd.InputStream(...)": the stream opens and starts
OpenStream ==
    /\ Running /\ pc = "open"
    /\ stream' = "open"
    /\ pc' = "start_listener"
    /\ UNCHANGED <<session, exitStatus, error, leaked, audio_queue, frames,
                   held, stop_event, cancel_event, listener, stale, files,
                   audio, delivered, lateChunk, signals, otherKeys,
                   swallowedStart, tvars>>

\* sd.InputStream(...) raises: "except Exception" wraps it in RecordingError
OpenFail ==
    /\ Running /\ pc = "open"
    /\ \E exc \in DriverTexts : error' = MsgDevice(exc)
    /\ signals' = signals \cup {"device"}
    /\ pc' = "handle"
    /\ UNCHANGED <<session, exitStatus, stream, leaked, audio_queue, frames,
                   held, stop_event, cancel_event, listener, stale, files,
                   audio, delivered, lateChunk, otherKeys, swallowedStart,
                   tvars>>

\* listener.start()
StartListener ==
    /\ Running /\ pc = "start_listener"
    /\ listener' = "blocked"
    /\ pc' = "loop"
    /\ UNCHANGED <<session, exitStatus, error, stream, leaked, audio_queue,
                   frames, held, stop_event, cancel_event, stale, files, audio,
                   delivered, lateChunk, signals, otherKeys, swallowedStart,
                   tvars>>

\* "while not stop_event.is_set()": when set, the with block is left and the
\* stream closed
LoopCheck ==
    /\ Running /\ pc = "loop"
    /\ IF stop_event
         THEN /\ stream' = StreamExit(stream)
              /\ pc' = "drain"
         ELSE /\ pc' = "get"
              /\ UNCHANGED stream
    /\ UNCHANGED <<session, exitStatus, error, leaked, audio_queue, frames,
                   held, stop_event, cancel_event, listener, stale, files,
                   audio, delivered, lateChunk, signals, otherKeys,
                   swallowedStart, tvars>>

\* audio_queue.get(timeout=0.1) returns a chunk
GetChunk ==
    /\ Running /\ pc = "get"
    /\ audio_queue # << >>
    /\ held' = <<Head(audio_queue)>>
    /\ audio_queue' = Tail(audio_queue)
    /\ pc' = "append"
    /\ UNCHANGED <<session, exitStatus, error, stream, leaked, frames,
                   stop_event, cancel_event, listener, stale, files, audio,
                   delivered, lateChunk, signals, otherKeys, swallowedStart,
                   tvars>>

\* audio_queue.get() without a timeout: it blocks while the queue is empty
GetBlocks ==
    /\ Running /\ pc = "get"
    /\ audio_queue = << >>
    /\ FALSE
    /\ UNCHANGED vars

\* audio_queue.get(timeout=0.1) raises queue.Empty: continue
GetTimeout ==
    /\ Running /\ pc = "get"
    /\ audio_queue = << >>
    /\ pc' = "loop"
    /\ UNCHANGED <<session, exitStatus, error, stream, leaked, audio_queue,
                   frames, held, stop_event, cancel_event, listener, stale,
                   files, audio, delivered, lateChunk, signals, otherKeys,
                   swallowedStart, tvars>>

\* frames.append(<the chunk get returned>)
AppendHeld ==
    /\ Running /\ pc = "append"
    /\ frames' = AppendFrame(frames, held[1])
    /\ held' = << >>
    /\ pc' = "loop"
    /\ UNCHANGED <<session, exitStatus, error, stream, leaked, audio_queue,
                   stop_event, cancel_event, listener, stale, files, audio,
                   delivered, lateChunk, signals, otherKeys, swallowedStart,
                   tvars>>

InBody == {"start_listener", "loop", "get", "append"}

\* KeyboardInterrupt raised in the main thread inside the try block: the with
\* block (when entered) is left and the stream closed, then the handler runs
ControllerInterrupt ==
    /\ Running /\ pc \in InBody \cup {"open"}
    /\ stream' = IF pc \in InBody
                   THEN StreamExit(stream)
                   ELSE stream
    /\ held' = << >>
    /\ signals' = signals \cup {"controller_cancel"}
    /\ pc' = "kbd_cancel"
    /\ UNCHANGED <<session, exitStatus, error, leaked, audio_queue, frames,
                   stop_event, cancel_event, listener, stale, files, audio,
                   delivered, lateChunk, otherKeys, swallowedStart, tvars>>

\* except KeyboardInterrupt: cancel_event.set()
KbdSetCancel ==
    /\ Running /\ pc = "kbd_cancel"
    /\ cancel_event' = TRUE
    /\ pc' = "kbd_stop"
    /\ UNCHANGED <<session, exitStatus, error, stream, leaked, audio_queue,
                   frames, held, stop_event, listener, stale, files, audio,
                   delivered, lateChunk, signals, otherKeys, swallowedStart,
                   tvars>>

\* except KeyboardInterrupt: stop_event.set()
KbdSetStop ==
    /\ Running /\ pc = "kbd_stop"
    /\ stop_event' = TRUE
    /\ pc' = "drain"
    /\ UNCHANGED <<session, exitStatus, error, stream, leaked, audio_queue,
                   frames, held, cancel_event, listener, stale, files, audio,
                   delivered, lateChunk, signals, otherKeys, swallowedStart,
                   tvars>>

\* an exception path that does not close the stream
DeviceFailNoClose ==
    /\ Running /\ pc \in InBody
    /\ \E exc \in DriverTexts : error' = MsgDevice(exc)
    /\ held' = << >>
    /\ signals' = signals \cup {"device"}
    /\ pc' = "handle"
    /\ UNCHANGED <<session, exitStatus, stream, leaked, audio_queue, frames,
                   stop_event, cancel_event, listener, stale, files, audio,
                   delivered, lateChunk, otherKeys, swallowedStart, tvars>>

\* an exception raised inside the with block: the stream is closed and
\* "except Exception" wraps it in RecordingError
DeviceFail ==
    /\ Running /\ pc \in InBody
    /\ stream' = StreamExit(stream)
    /\ \E exc \in DriverTexts : error' = MsgDevice(exc)
    /\ held' = << >>
    /\ signals' = signals \cup {"device"}
    /\ pc' = "handle"
    /\ UNCHANGED <<session, exitStatus, leaked, audio_queue, frames,
                   stop_event, cancel_event, listener, stale, files, audio,
                   delivered, lateChunk, otherKeys, swallowedStart, tvars>>

\* a final drain that is skipped
DrainSkipped ==
    /\ Running /\ pc = "drain"
    /\ pc' = "check"
    /\ UNCHANGED <<session, exitStatus, error, stream, leaked, audio_queue,
                   frames, held, stop_event, cancel_event, listener, stale,
                   files, audio, delivered, lateChunk, signals, otherKeys,
                   swallowedStart, tvars>>

\* "while True: frames.append(audio_queue.get_nowait())" until queue.Empty
DrainStep ==
    /\ Running /\ pc = "drain"
    /\ IF audio_queue # << >>
         THEN /\ frames' = AppendFrame(frames, Head(audio_queue))
              /\ audio_queue' = Tail(audio_queue)
              /\ pc' = "drain"
         ELSE /\ pc' = "check"
              /\ UNCHANGED <<frames, audio_queue>>
    /\ UNCHANGED <<session, exitStatus, error, stream, leaked, held,
                   stop_event, cancel_event, listener, stale, files, audio,
                   delivered, lateChunk, signals, otherKeys, swallowedStart,
                   tvars>>

\* "if not frames: raise RecordingError("No audio captured ...")"
CheckFrames ==
    /\ Running /\ pc = "check"
    /\ IF NoFrames(frames)
         THEN /\ error' = MsgNoAudio
              /\ pc' = "handle"
         ELSE /\ pc' = "write"
              /\ UNCHANGED error
    /\ UNCHANGED <<session, exitStatus, stream, leaked, audio_queue, frames,
                   held, stop_event, cancel_event, listener, stale, files,
                   audio, delivered, lateChunk, signals, otherKeys,
                   swallowedStart, tvars>>

\* audio = np.concatenate(frames); tempfile.NamedTemporaryFile(delete=False)
\* creates the temporary file
CreateTemp ==
    /\ Running /\ pc = "write"
    /\ files' = files \cup {session}
    /\ pc' = "sf_write"
    /\ UNCHANGED <<session, exitStatus, error, stream, leaked, audio_queue,
                   frames, held, stop_event, cancel_event, listener, stale,
                   audio, delivered, lateChunk, signals, otherKeys,
                   swallowedStart, tvars>>

\* sf.write(destination_path, audio, ...); return destination_path
WriteAudio ==
    /\ Running /\ pc = "sf_write"
    /\ audio' = Concatenate(frames)
    /\ pc' = "returned"
    /\ UNCHANGED <<session, exitStatus, error, stream, leaked, audio_queue,
                   frames, held, stop_event, cancel_event, listener, stale,
                   files, delivered, lateChunk, signals, otherKeys,
                   swallowedStart, tvars>>

\* sf.write raises (the disk is full, say): the call is in no try block, and
\* the exception is no RecordingError, so it leaves record_to_file and main
WriteFail ==
    /\ Running /\ pc = "sf_write"
    /\ exitStatus' = "uncaught"
    /\ pc' = "done"
    /\ UNCHANGED <<session, error, stream, leaked, audio_queue, frames, held,
                   stop_event, cancel_event, listener, stale, files, audio,
                   delivered, lateChunk, signals, otherKeys, swallowedStart,
                   tvars>>

\* ------------------------------------------------------ controller: main
\* an except block that falls through to the transcription
HandleErrorFallsThrough ==
    /\ Running /\ pc = "handle"
    /\ pc' = "returned"
    /\ UNCHANGED <<session, exitStatus, error, stream, leaked, audio_queue,
                   frames, held, stop_event, cancel_event, listener, stale,
                   files, audio, delivered, lateChunk, signals, otherKeys,
                   swallowedStart, tvars>>

\* "except RecordingError as exc": return on the cancelled message, continue
\* when the message holds "please try again", else raise SystemExit(1)
HandleError ==
    /\ Running /\ pc = "handle"
    /\ IF error = MsgCancelled
         THEN exitStatus' = "normal" /\ pc' = "done"
         ELSE IF Contains(Lower(error), TryAgain)
                THEN pc' = "idle" /\ UNCHANGED exitStatus
                ELSE exitStatus' = "exit1" /\ pc' = "done"
    /\ UNCHANGED <<session, error, stream, leaked, audio_queue, frames, held,
                   stop_event, cancel_event, listener, stale, files, audio,
                   delivered, lateChunk, signals, otherKeys, swallowedStart,
                   tvars>>

\* "_transcribe_and_display(..., audio_path=temp_audio, ...)" is called
EnterTranscribe ==
    /\ Running /\ pc = "returned"
    /\ pc' = "transcribe"
    /\ UNCHANGED <<session, exitStatus, error, stream, leaked, audio_queue,
                   frames, held, stop_event, cancel_event, listener, stale,
                   files, audio, delivered, lateChunk, signals, otherKeys,
                   swallowedStart, tvars>>

\* the transcription succeeds; finally: temp_audio.unlink(); next iteration
TranscribeOk ==
    /\ Running /\ pc = "transcribe"
    /\ files' = files \ {session}
    /\ pc' = "idle"
    /\ UNCHANGED <<session, exitStatus, error, stream, leaked, audio_queue,
                   frames, held, stop_event, cancel_event, listener, stale,
                   audio, delivered, lateChunk, signals, otherKeys,
                   swallowedStart, tvars>>

\* TranscriptionError: raise SystemExit(2); finally: temp_audio.unlink()
TranscribeFail ==
    /\ Running /\ pc = "transcribe"
    /\ files' = files \ {session}
    /\ exitStatus' = "exit2"
    /\ pc' = "done"
    /\ UNCHANGED <<session, error, stream, leaked, audio_queue, frames, held,
                   stop_event, cancel_event, listener, stale, audio, delivered,
                   lateChunk, signals, otherKeys, swallowedStart, tvars>>

\* any other exception of the transcription; finally: temp_audio.unlink();
\* the exception leaves main
TranscribeCrash ==
    /\ Running /\ pc = "transcribe"
    /\ files' = files \ {session}
    /\ exitStatus' = "uncaught"
    /\ pc' = "done"
    /\ UNCHANGED <<session, error, stream, leaked, audio_queue, frames, held,
                   stop_event, cancel_event, listener, stale, audio, delivered,
                   lateChunk, signals, otherKeys, swallowedStart, tvars>>

\* KeyboardInterrupt raised in the main thread outside record_to_file's try
\* block: it reaches main's "except KeyboardInterrupt" (inside the
\* transcription, after the finally clause removed the file)
MainInterrupt ==
    /\ Running
    /\ pc \in {"idle", "import", "kbd_cancel", "kbd_stop", "drain", "check",
               "write", "sf_write", "handle", "returned", "transcribe"}
    /\ files' = IF pc = "transcribe" THEN files \ {session} ELSE files
    /\ exitStatus' = "interrupted"
    /\ pc' = "done"
    /\ UNCHANGED <<session, error, stream, leaked, audio_queue, frames, held,
                   stop_event, cancel_event, listener, stale, audio, delivered,
                   lateChunk, signals, otherKeys, swallowedStart, tvars>>

\* ------------------------------------------------------ device callback
\* callback: audio_queue.put(indata.copy()), while the call's stream is open
Callback ==
    /\ Running /\ session >= 1
    /\ pc \in InBody /\ stream = "open"
    /\ Len(delivered) < MaxChunks
    /\ \E n \in ChunkLens :
          /\ audio_queue' = Append(audio_queue, NextChunk(n))
          /\ delivered' = Append(delivered, NextChunk(n))
    /\ lateChunk' = (lateChunk \/ stop_event)
    /\ UNCHANGED <<pc, session, exitStatus, error, stream, leaked, frames,
                   held, stop_event, cancel_event, listener, stale, files,
                   audio, signals, otherKeys, swallowedStart, tvars>>

\* ------------------------------------------- listener: wait_for_stop
\* a listener that takes SPACE for a cancel
ListenerSpaceAsCancel ==
    /\ Running /\ listener = "blocked"
    /\ listener' = "set_cancel"
    /\ signals' = IF TornDown THEN signals ELSE signals \cup {"space"}
    /\ UNCHANGED <<pc, session, exitStatus, error, stream, leaked, audio_queue,
                   frames, held, stop_event, cancel_event, stale, files, audio,
                   delivered, lateChunk, otherKeys, swallowedStart, tvars>>

\* click.getchar() returns " ": stop_event.set() is next
ListenerSpace ==
    /\ Running /\ listener = "blocked"
    /\ listener' = "set_stop"
    /\ signals' = IF TornDown THEN signals ELSE signals \cup {"space"}
    /\ UNCHANGED <<pc, session, exitStatus, error, stream, leaked, audio_queue,
                   frames, held, stop_event, cancel_event, stale, files, audio,
                   delivered, lateChunk, otherKeys, swallowedStart, tvars>>

\* click.getchar() returns another key: the loop calls getchar again
ListenerOther ==
    /\ Running /\ listener = "blocked"
    /\ UNCHANGED vars

\* click.getchar() raises KeyboardInterrupt: the except clause is entered
ListenerInterrupt ==
    /\ Running /\ listener = "blocked"
    /\ listener' = "set_cancel"
    /\ signals' = IF TornDown THEN signals ELSE signals \cup {"listener_cancel"}
    /\ UNCHANGED <<pc, session, exitStatus, error, stream, leaked, audio_queue,
                   frames, held, stop_event, cancel_event, stale, files, audio,
                   delivered, lateChunk, otherKeys, swallowedStart, tvars>>

\* an except clause that does not set cancel_event
ListenerSkipsCancel ==
    /\ Running /\ listener = "set_cancel"
    /\ listener' = "set_stop"
    /\ UNCHANGED <<pc, session, exitStatus, error, stream, leaked, audio_queue,
                   frames, held, stop_event, cancel_event, stale, files, audio,
                   delivered, lateChunk, signals, otherKeys, swallowedStart,
                   tvars>>

\* except KeyboardInterrupt: cancel_event.set()
ListenerSetCancel ==
    /\ Running /\ listener = "set_cancel"
    /\ cancel_event' = TRUE
    /\ listener' = "set_stop"
    /\ UNCHANGED <<pc, session, exitStatus, error, stream, leaked, audio_queue,
                   frames, held, stop_event, stale, files, audio, delivered,
                   lateChunk, signals, otherKeys, swallowedStart, tvars>>

\* stop_event.set(), then the thread ends
ListenerSetStop ==
    /\ Running /\ listener = "set_stop"
    /\ stop_event' = TRUE
    /\ listener' = "done"
    /\ UNCHANGED <<pc, session, exitStatus, error, stream, leaked, audio_queue,
                   frames, held, cancel_event, stale, files, audio, delivered,
                   lateChunk, signals, otherKeys, swallowedStart, tvars>>

\* A listener of an earlier call, still blocked in click.getchar(), reads the
\* next key: on " " or KeyboardInterrupt it sets the events of its own call
\* and ends, on another key it calls getchar again.
StaleListenerKey ==
    /\ Running
    /\ \E o \in Abandoned, key \in {" ", "x", "^C"} :
          /\ stale[o] > 0
          /\ stale' = IF key = "x" THEN stale ELSE [stale EXCEPT ![o] = @ - 1]
          /\ swallowedStart' =
                IF key = " " /\ pc = "wait_start"
                  THEN swallowedStart \cup {o}
                  ELSE swallowedStart
    /\ UNCHANGED <<pc, session, exitStatus, error, stream, leaked, audio_queue,
                   frames, held, stop_event, cancel_event, listener, files,
                   audio, delivered, lateChunk, signals, otherKeys, tvars>>

\* ------------------------------------------------------------------ spec
Next ==
    \/ StartSession \/ ImportOk \/ ImportFail
    \/ WaitStartSpace \/ WaitStartOther \/ WaitStartCancel
    \/ OpenStream \/ OpenFail \/ StartListener
    \/ LoopCheck \/ GetChunk \/ GetTimeout \/ AppendHeld
    \/ ControllerInterrupt \/ KbdSetCancel \/ KbdSetStop \/ DeviceFail
    \/ DrainStep \/ CheckFrames \/ CreateTemp \/ WriteAudio \/ WriteFail
    \/ HandleError \/ EnterTranscribe
    \/ TranscribeOk \/ TranscribeFail \/ TranscribeCrash
    \/ MainInterrupt
    \/ Callback
    \/ ListenerSpace \/ ListenerOther \/ ListenerInterrupt
    \/ ListenerSetCancel \/ ListenerSetStop
    \/ StaleListenerKey

Spec == Init /\ [][Next]_vars

\* The steps the controller takes on its own once the stream is open: the
\* main thread is scheduled, audio_queue.get returns within its timeout.
ControllerStep ==
    \/ LoopCheck
    \/ GetChunk
    \/ GetTimeout
    \/ AppendHeld
    \/ KbdSetCancel
    \/ KbdSetStop
    \/ DrainStep
    \/ CheckFrames
    \/ CreateTemp
    \/ WriteAudio

\* The listener thread is scheduled: after getchar returned it sets its flags.
ListenerStep == ListenerSetCancel \/ ListenerSetStop

\* The first call of record_to_file and what main does with its outcome:
\* no listener of an earlier call exists yet.
FirstCall == session = 0 /\ StartSession

CallNext ==
    \/ FirstCall
    \/ ImportOk
    \/ ImportFail
    \/ WaitStartSpace
    \/ WaitStartOther
    \/ WaitStartCancel
    \/ OpenStream
    \/ OpenFail
    \/ StartListener
    \/ ControllerStep
    \/ ControllerInterrupt
    \/ DeviceFail
    \/ WriteFail
    \/ HandleError
    \/ EnterTranscribe
    \/ TranscribeOk
    \/ TranscribeFail
    \/ TranscribeCrash
    \/ MainInterrupt
    \/ Callback
    \/ ListenerSpace
    \/ ListenerOther
    \/ ListenerInterrupt
    \/ ListenerStep

\* Keys, interrupts, device failures and chunks are the environment's and
\* are under no fairness.
FairSpec ==
    Init /\ [][CallNext]_vars /\ WF_vars(ControllerStep) /\ WF_vars(ListenerStep)

\* ----------------------------------------------------------- transcribers
\* A Python attribute of a backend object: missing from the object, holding
\* None, or holding a value.
Absent == [kind |-> "absent"]

None == [kind |-> "None"]

Val(x) == [kind |-> "value", v |-> x]

\* A text is the sequence of its tokens; " " is a run of whitespace.
Texts == { << >>, <<" ", "Hallo", " ">> }

\* Segment times in seconds.
Times == {0, 2}

Languages == {"de"}

Attr(values) == {Absent, None} \cup {Val(x) : x \in values}

\* A segment object as a backend yields it; a backend that gives both times
\* gives them in order.
RawSegments ==
    { s \in [start : Attr(Times), end : Attr(Times), text : Attr(Texts),
             language : {Absent} \cup {Val(l) : l \in Languages}] :
        (s.start.kind = "value" /\ s.end.kind = "value") => s.start.v <= s.end.v }

RECURSIVE SegmentLists(_)
SegmentLists(n) ==
    IF n = 0 THEN { << >> }
    ELSE LET shorter == SegmentLists(n - 1)
         IN shorter \cup { Append(l, s) : l \in {x \in shorter : Len(x) = n - 1},
                                          s \in RawSegments }

\* The verbose_json response object of client.audio.transcriptions.create
OpenAIResponses ==
    [text : Attr(Texts), language : Attr(Languages),
     segments : {Absent, None} \cup {Val(l) : l \in SegmentLists(MaxSegments)}]

\* (segments_iter, info) as WhisperModel.transcribe returns them
LocalResponses ==
    [language : Attr(Languages),
     segments : {Val(l) : l \in SegmentLists(MaxSegments)}]

\* getattr(obj, name, default)
Getattr(attr, default) == IF attr.kind = "absent" THEN default ELSE attr

\* "x or 0.0": None and 0.0 are falsy
OrZero(x) ==
    IF x.kind = "None" \/ (x.kind = "value" /\ x.v = 0) THEN Val(0) ELSE x

\* "x or []": None and the empty list are falsy
OrEmptyList(x) ==
    IF x.kind = "None" \/ (x.kind = "value" /\ x.v = << >>) THEN Val(<< >>)
    ELSE x

RECURSIVE LStrip(_)
LStrip(t) == IF t # << >> /\ Head(t) = " " THEN LStrip(Tail(t)) ELSE t

RECURSIVE RStrip(_)
RStrip(t) ==
    IF t # << >> /\ t[Len(t)] = " " THEN RStrip(SubSeq(t, 1, Len(t) - 1))
    ELSE t

\* str.strip()
Strip(t) == RStrip(LStrip(t))

\* " ".join(parts)
RECURSIVE Join(_)
Join(parts) ==
    IF parts = << >> THEN << >>
    ELSE IF Len(parts) = 1 THEN parts[1]
    ELSE parts[1] \o <<" ">> \o Join(Tail(parts))

Raise(exc, why) == [kind |-> "raise", exc |-> exc, why |-> why]

\* TranscriptionResult(text, segments, detected_language)
TranscriptionResult(text, segments, language) ==
    [kind |-> "result", text |-> text, segments |-> segments,
     detected_language |-> language]

\* TranscriptSegment(...) as OpenAITranscriber.transcribe builds it
OpenAISegment(segment) ==
    [start |-> OrZero(Getattr(segment.start, Val(0))),
     end |-> OrZero(Getattr(segment.end, Val(0))),
     text |-> Getattr(segment.text, Val(<< >>)),
     language |-> Getattr(segment.language, None)]

\* OpenAITranscribe with the text joined from the segments, as the local
\* transcriber does, instead of taken from the response
OpenAITranscribeJoined(resp) ==
    LET raws == OrEmptyList(Getattr(resp.segments, Val(<< >>))).v
        segments == [i \in 1..Len(raws) |-> OpenAISegment(raws[i])]
        text == Getattr(resp.text, Val(<< >>))
    IN  IF text.kind = "None" THEN Raise("AttributeError", "malformed_response")
        ELSE TranscriptionResult(
                 Val(Strip(Join([i \in 1..Len(segments) |->
                                    IF segments[i].text.kind = "value"
                                    THEN segments[i].text.v ELSE << >>]))),
                 segments, Getattr(resp.language, None))

\* OpenAITranscriber.transcribe, from the response on; None has no strip()
OpenAITranscribe(resp) ==
    LET raws == OrEmptyList(Getattr(resp.segments, Val(<< >>))).v
        segments == [i \in 1..Len(raws) |-> OpenAISegment(raws[i])]
        text == Getattr(resp.text, Val(<< >>))
    IN  IF text.kind = "None" THEN Raise("AttributeError", "malformed_response")
        ELSE TranscriptionResult(Val(Strip(text.v)), segments,
                                 Getattr(resp.language, None))

\* the body of the loop of _segments_from_iterable
LocalSegment(raw) ==
    [start |-> OrZero(Getattr(raw.start, Val(0))),
     end |-> OrZero(Getattr(raw.end, Val(0))),
     text |-> Val(Strip(Getattr(raw.text, Val(<< >>)).v)),
     language |-> Getattr(raw.language, None)]

\* LocalWhisperTranscriber.transcribe, from the backend's answer on
LocalTranscribe(resp) ==
    LET raws == resp.segments.v
    IN  IF \E i \in 1..Len(raws) : Getattr(raws[i].text, Val(<< >>)).kind = "None"
        THEN Raise("AttributeError", "malformed_response")
        ELSE LET segments == [i \in 1..Len(raws) |-> LocalSegment(raws[i])]
                 text == Strip(Join([i \in 1..Len(segments) |->
                                        Strip(segments[i].text.v)]))
             IN TranscriptionResult(Val(text), segments,
                                    Getattr(resp.language, None))

Backends == {"local", "openai"}

\* _transcribe_and_display is entered for a waveform
TStart ==
    /\ tpc = "none"
    /\ \E b \in Backends : backend' = b
    /\ tpc' = "construct"
    /\ UNCHANGED rvars /\ UNCHANGED <<response, outcome, report, transcripts>>

\* the constructor's import fails: faster_whisper or openai is not installed
TMissingPackage ==
    /\ tpc = "construct"
    /\ outcome' = Raise("TranscriptionError", "missing_capability")
    /\ tpc' = "raised"
    /\ UNCHANGED rvars /\ UNCHANGED <<backend, response, report, transcripts>>

\* OpenAITranscriber.__init__: no api_key and no OPENAI_API_KEY
TMissingKey ==
    /\ tpc = "construct" /\ backend = "openai"
    /\ outcome' = Raise("TranscriptionError", "missing_credentials")
    /\ tpc' = "raised"
    /\ UNCHANGED rvars /\ UNCHANGED <<backend, response, report, transcripts>>

\* LocalWhisperTranscriber.__init__: WhisperModel(...) raises (the model
\* cannot be loaded or downloaded); the call is not inside a try
TModelLoadFails ==
    /\ tpc = "construct" /\ backend = "local"
    /\ outcome' = Raise("BackendError", "model_error")
    /\ tpc' = "raised"
    /\ UNCHANGED rvars /\ UNCHANGED <<backend, response, report, transcripts>>

TConstructOk ==
    /\ tpc = "construct"
    /\ tpc' = "call"
    /\ UNCHANGED rvars /\ UNCHANGED <<backend, response, outcome, report,
                                      transcripts>>

\* the backend call raises: self._model.transcribe(...) or the iteration of
\* its lazy segments (local), client.audio.transcriptions.create(...)
\* (openai); neither call is inside a try
TBackendFails ==
    /\ tpc = "call"
    /\ outcome' = Raise("BackendError",
                        IF backend = "local" THEN "model_error"
                        ELSE "network_error")
    /\ tpc' = "raised"
    /\ UNCHANGED rvars /\ UNCHANGED <<backend, response, report, transcripts>>

\* the backend answers and transcribe normalises the answer
TBackendResponds ==
    /\ tpc = "call"
    /\ \E r \in IF backend = "local" THEN LocalResponses ELSE OpenAIResponses :
          /\ response' = r
          /\ outcome' = IF backend = "local" THEN LocalTranscribe(r)
                        ELSE OpenAITranscribe(r)
    /\ tpc' = IF outcome'.kind = "raise" THEN "raised" ELSE "returned"
    /\ UNCHANGED rvars /\ UNCHANGED <<backend, report, transcripts>>

\* _render_markdown and output_path.write_text: the timeline calls
\* segment.text.strip() on every segment when include_segments is on
TDisplay ==
    /\ tpc = "returned"
    /\ \E include_segments \in BOOLEAN :
          IF /\ include_segments
             /\ \E i \in 1..Len(outcome.segments) :
                    outcome.segments[i].text.kind = "None"
          THEN /\ report' = "uncaught"
               /\ UNCHANGED transcripts
          ELSE /\ report' = "complete"
               /\ transcripts' = transcripts + 1
    /\ tpc' = "end"
    /\ UNCHANGED rvars /\ UNCHANGED <<backend, response, outcome>>

\* "except TranscriptionError": "Transcription failed", SystemExit(2)
TReportFailure ==
    /\ tpc = "raised" /\ outcome.exc = "TranscriptionError"
    /\ report' = "exit2"
    /\ tpc' = "end"
    /\ UNCHANGED rvars /\ UNCHANGED <<backend, response, outcome, transcripts>>

\* any other exception passes "except TranscriptionError" and leaves
\* _transcribe_and_display and main uncaught
TPropagate ==
    /\ tpc = "raised" /\ outcome.exc # "TranscriptionError"
    /\ report' = "uncaught"
    /\ tpc' = "end"
    /\ UNCHANGED rvars /\ UNCHANGED <<backend, response, outcome, transcripts>>

TNext ==
    \/ TStart
    \/ TMissingPackage
    \/ TMissingKey
    \/ TModelLoadFails
    \/ TConstructOk
    \/ TBackendFails
    \/ TBackendResponds
    \/ TDisplay
    \/ TReportFailure
    \/ TPropagate

\* one transcription, for every backend and every answer of the backend
TSpec == Init /\ [][TNext]_vars

\* ---------------------------------------------------------------- claims
CancelSignals == {"cancel_before_start", "listener_cancel", "controller_cancel"}

\* The capture of the current call was ended by SPACE alone.
StoppedBySpace ==
    /\ "space" \in signals
    /\ signals \cap CancelSignals = {}
    /\ "device" \notin signals

\* The samples the device produced in the current call, in the order it
\* produced them.
AllSamples == [i \in 1..SumLens(delivered) |-> i]

\* C1: when capture was ended by SPACE and at least one chunk was enqueued,
\* the written waveform is the concatenation, in arrival order, of every
\* enqueued chunk (none lost, none duplicated, those enqueued after the stop
\* flag was set included), so its length is the sum of the chunk lengths; and
\* such a call never fails with "no audio captured".
WaveformIsAllChunks ==
    /\ (pc \in {"returned", "transcribe"} /\ StoppedBySpace) =>
          /\ audio = AllSamples
          /\ audio = Concatenate(delivered)
          /\ Len(audio) = SumLens(delivered)
    /\ (pc = "handle" /\ StoppedBySpace /\ delivered # << >>) =>
          error # MsgNoAudio

\* Chunks of 1600, 1600 and 800 samples (in units of 800), the last one
\* enqueued after the stop flag was set, written as 4000 samples.
WaveformScenario ==
    /\ pc = "returned" /\ StoppedBySpace /\ lateChunk
    /\ Len(delivered) = 3
    /\ Len(delivered[1]) = 2 /\ Len(delivered[2]) = 2 /\ Len(delivered[3]) = 1
    /\ Len(audio) = 5

\* C2: once a cancel signal was observed during capture (cancel_event set by
\* the listener or by the controller), no waveform of that session is
\* written or returned, and the session's audio is never transcribed.
CancelDiscardsAudio ==
    cancel_event =>
        /\ session \notin files
        /\ audio = << >>
        /\ pc \notin {"returned", "transcribe"}

\* C3 as stated: a call in which a cancel signal was observed (before the
\* start signal or during capture) never raises a RecordingError.
CancelNeverRaises ==
    ("cancel_before_start" \in signals \/ cancel_event) => error = NoError

\* C3 as amended: a cancel before the start signal raises the RecordingError
\* "Recording cancelled before start."; a cancel during capture, when no
\* device failure occurs, raises the "no audio captured" RecordingError
\* exactly when no chunk was accumulated, and otherwise the call goes on to
\* write the waveform without an error.
CancelOutcome ==
    /\ "cancel_before_start" \in signals => error = MsgCancelled
    /\ (/\ cancel_event
        /\ "device" \notin signals
        /\ pc \in {"handle", "write", "sf_write", "returned", "transcribe"}) =>
          IF frames = << >>
            THEN pc = "handle" /\ error = MsgNoAudio
            ELSE pc # "handle" /\ error = NoError

\* A cancel read by the listener during capture, with a chunk accumulated:
\* the call returned without an error.
CancelDuringCaptureReturned ==
    /\ pc = "returned" /\ cancel_event /\ "listener_cancel" \in signals
    /\ frames # << >> /\ error = NoError

\* C4: when the cancel signal is observed before the start signal, the call
\* ends as cancelled with no chunk consumed or enqueued, no listener thread
\* started and no input stream ever opened, however many other keys were
\* pressed first.
CancelBeforeStartTouchesNothing ==
    "cancel_before_start" \in signals =>
        /\ pc \in {"handle", "done"}
        /\ error = MsgCancelled
        /\ frames = << >> /\ held = << >> /\ audio_queue = << >>
        /\ delivered = << >>
        /\ listener = "none"
        /\ stream = "none"
        /\ session \notin files

\* The cancel came after a non-SPACE key, and the call has raised.
CancelledAfterOtherKeys ==
    /\ "cancel_before_start" \in signals /\ otherKeys > 0 /\ pc = "handle"

\* C5: when the stream was closed with no chunk enqueued and no device
\* failure, the call raises the "no audio captured" RecordingError and no
\* waveform file is created or written.
NoChunksNoAudioError ==
    (stream = "closed" /\ delivered = << >> /\ "device" \notin signals) =>
        /\ pc \notin {"write", "sf_write", "returned", "transcribe"}
        /\ session \notin files
        /\ audio = << >>
        /\ pc \in {"handle", "idle"} => error = MsgNoAudio

\* SPACE stopped a capture in which the callback enqueued nothing, and the
\* call has raised.
StoppedWithNoChunks ==
    /\ pc = "handle" /\ StoppedBySpace /\ delivered = << >>
    /\ stream = "closed" /\ error = MsgNoAudio

\* C6: whenever record_to_file has handed control back to main (returned or
\* raised, on any exit path), the input stream it opened is closed; the
\* stream is open only inside the with block.
StreamClosedOnReturn ==
    /\ TornDown => stream # "open"
    /\ stream = "open" => pc \in InBody

\* A device exception after the stream was opened: the call has raised and
\* the stream is closed.
RaisedAfterDeviceFailure ==
    /\ pc = "handle" /\ "device" \in signals /\ stream = "closed"

\* C7, for an earlier session that ended through a KeyboardInterrupt in the
\* controller: the listener left over from it never consumes a key from the
\* shared signal source, so the SPACE that starts a later session is never
\* swallowed by it.
StaleListenerSilent == "controller_cancel" \notin swallowedStart

\* The open input streams of the process.
OpenStreamCount == leaked + (IF stream = "open" THEN 1 ELSE 0)

\* C8: at most one input stream is open in any state, and a new session
\* begins only when main is at the top of its loop with the previous
\* session's stream closed (no stream of an earlier call stays open).
OneSessionAtATime ==
    /\ OpenStreamCount <= 1
    /\ leaked = 0
    /\ pc \in {"import", "wait_start", "open"} => OpenStreamCount = 0

\* A second session records while the first one's stream is closed.
SecondSessionRecording ==
    /\ session = 2 /\ stream = "open" /\ pc = "loop"

\* C9: the transcription is only ever entered with a waveform that the
\* record_to_file of the same iteration assembled, wrote and returned;
\* never in an iteration whose record_to_file raised.
TranscribeOnlyReturnedAudio ==
    pc = "transcribe" =>
        /\ error = NoError
        /\ frames # << >>
        /\ audio = Concatenate(frames)
        /\ audio # << >>
        /\ session \in files

\* A transcription in the iteration after one whose recording raised.
TranscribeAfterRetry ==
    /\ pc = "transcribe" /\ session = 2

\* The current call raised and main's except block has run to its end.
Handled ==
    /\ error # NoError
    /\ pc \in {"idle", "done"}
    /\ exitStatus # "interrupted"

\* C10: after main handled a RecordingError: "no audio captured" leads to a
\* new iteration with the process running; a device failure ends the
\* process with a failure status; a cancellation before the start signal
\* ends the loop normally.
RetryPolicy ==
    Handled =>
        /\ error = MsgNoAudio => (pc = "idle" /\ exitStatus = "running")
        /\ "device" \in signals => (pc = "done" /\ exitStatus = "exit1")
        /\ error = MsgCancelled => (pc = "done" /\ exitStatus = "normal")

\* ------------------------------------------------- claims on transcription
\* the backend has answered the call of transcribe
Answered == "segments" \in DOMAIN response

Missing(attr) == attr.kind \in {"absent", "None"}

\* C11: every failure of a transcriber (missing capability or credentials,
\* malformed response, network error, model error) surfaces as
\* TranscriptionError and nothing else; _transcribe_and_display reports it as
\* a transcription failure (exit status 2) and writes no transcript.
FailuresAreTranscriptionErrors ==
    /\ outcome.kind = "raise" => outcome.exc = "TranscriptionError"
    /\ (outcome.kind = "raise" /\ tpc = "end") =>
          report = "exit2" /\ transcripts = 0

\* C12: for every answer of the remote API in which optional fields are
\* missing, OpenAITranscriber.transcribe returns a result: a missing start or
\* end is 0.0, a missing segment text is the empty string, and the text of
\* the result is never None.
MissingFieldsDefaulted ==
    (backend = "openai" /\ Answered) =>
        /\ outcome.kind = "result"
        /\ outcome.text.kind = "value"
        /\ LET raws == IF Missing(response.segments) THEN << >>
                       ELSE response.segments.v
           IN /\ Len(outcome.segments) = Len(raws)
              /\ \A i \in 1..Len(raws) :
                    /\ Missing(raws[i].start) => outcome.segments[i].start = Val(0)
                    /\ Missing(raws[i].end) => outcome.segments[i].end = Val(0)
                    /\ Missing(raws[i].text) =>
                          outcome.segments[i].text = Val(<< >>)

\* C13 as stated: whenever the backend's answer has an empty segment list,
\* the text of the result is the empty string, whatever else the answer holds.
EmptySegmentsEmptyText ==
    (Answered /\ response.segments = Val(<< >>) /\ outcome.kind = "result") =>
        outcome.text = Val(<< >>)

\* C13, amended: with an empty segment list the local transcriber returns the
\* empty string; the remote one returns the stripped text field of the
\* answer (the empty string when the attribute is absent), and raises when
\* that field is None.
EmptySegmentsText ==
    (Answered /\ response.segments = Val(<< >>)) =>
        /\ backend = "local" =>
              outcome.kind = "result" /\ outcome.text = Val(<< >>)
        /\ backend = "openai" =>
              CASE response.text.kind = "absent" ->
                       outcome.kind = "result" /\ outcome.text = Val(<< >>)
                [] response.text.kind = "None" -> outcome.kind = "raise"
                [] response.text.kind = "value" ->
                       /\ outcome.kind = "result"
                       /\ outcome.text = Val(Strip(response.text.v))

\* C13 witness: the remote API answered with text and no segments
TextWithoutSegments ==
    /\ backend = "openai" /\ Answered
    /\ response.segments = Val(<< >>)
    /\ response.text = Val(<<" ", "Hallo", " ">>)
    /\ outcome.kind = "result"
    /\ outcome.text = Val(<<"Hallo">>)

\* C14: every TranscriptSegment a transcriber produces has start >= 0 and
\* end >= start, also when the backend's segment lacks one timing field.
SegmentTimesOrdered ==
    outcome.kind = "result" =>
        \A i \in 1..Len(outcome.segments) :
            /\ outcome.segments[i].start.v >= 0
            /\ outcome.segments[i].end.v >= outcome.segments[i].start.v

\* ------------------------------------------------- claims on the recorder
\* record_to_file has returned or raised, or the process has ended
Terminated == pc \in {"handle", "returned", "done"}

\* a stop or cancel signal has reached the current call during capture
SignalDelivered ==
    \/ pc \in {"loop", "get", "append"}
          /\ listener \in {"set_cancel", "set_stop", "done"}
    \/ pc \in {"kbd_cancel", "kbd_stop"}

\* C15: once a stop or cancel signal is delivered during capture,
\* record_to_file leaves its loop, finishes the final drain and terminates,
\* whatever the callback enqueues meanwhile; the controller never stays
\* blocked on an empty queue and the final drain ends.
CaptureTerminates ==
    (SignalDelivered \/ pc \in {"drain", "check", "write", "sf_write"})
        ~> Terminated

\* C15 witness: chunks kept arriving after the stop flag was set, and the
\* call has returned
ReturnedDespiteLateChunks ==
    pc = "returned" /\ lateChunk /\ Len(delivered) = MaxChunks

\* C16 as stated: on stop the controller performs the final non-blocking
\* drain before it closes the stream, so the stream is not yet closed while
\* the drain is still to be done.
DrainBeforeClose ==
    (pc = "drain" /\ "controller_cancel" \notin signals) => stream # "closed"

\* C16, amended: the controller leaves the with block, which closes the
\* stream, before the final drain; the drain then empties the queue, and the
\* queue stays empty afterwards because no chunk arrives on a closed stream.
CloseBeforeDrain ==
    /\ pc = "drain" => stream # "open"
    /\ pc \in {"check", "write", "sf_write"} =>
          (stream # "open" /\ audio_queue = << >>)

\* C16 witness: the stream is closed and chunks that arrived after the stop
\* flag was set are still in the queue, to be drained
DrainingAfterClose ==
    /\ pc = "drain" /\ stream = "closed"
    /\ audio_queue # << >> /\ lateChunk
    /\ "controller_cancel" \notin signals

\* C17 as stated: the listener sets exactly one of the two flags, so in no
\* reachable state are stop_event and cancel_event both set for one session.
NeverBothFlags ==
    "controller_cancel" \notin signals => ~(stop_event /\ cancel_event)

\* C17, amended: on SPACE the listener sets stop_event only; on a cancel it
\* sets cancel_event and then stop_event, in two steps, so both end up set.
\* The state between the two steps (cancel_event set, stop_event not) is
\* reachable, but the controller reads cancel_event only after it has seen
\* stop_event set.
ListenerFlags ==
    /\ (listener = "done" /\ "space" \in signals
           /\ "controller_cancel" \notin signals) =>
          (stop_event /\ ~cancel_event)
    /\ (listener = "done" /\ "listener_cancel" \in signals) =>
          (stop_event /\ cancel_event)
    /\ (cancel_event /\ ~stop_event /\ "controller_cancel" \notin signals) =>
          /\ listener = "set_stop"
          /\ pc \notin {"drain", "check", "write", "sf_write", "returned",
                       "transcribe"}

\* C17 witness: the listener read CTRL+C and has set both flags, which the
\* controller has yet to observe
BothFlagsSetByListener ==
    /\ stop_event /\ cancel_event
    /\ listener = "done" /\ signals = {"listener_cancel"}
    /\ pc = "loop"

\* C18: every temporary waveform file of a session is deleted before the next
\* session starts or the process exits, whatever the outcome of the
\* transcription (success, TranscriptionError, another exception, an
\* interruption): no raw-audio file outlives its iteration of the loop.
TempFilesRemoved == pc \in {"idle", "done"} => files = {}

\* C19: from the opening of the stream until the waveform is assembled, and
\* under every interleaving, the frames list followed by the contents of the
\* queue is the sequence of all delivered chunks in delivery order: every
\* chunk is in exactly one of the two places, once. Stated for the states in
\* which the controller is between two statements (no chunk is in transit
\* from audio_queue.get to frames.append).
ChunksInFramesOrQueue ==
    (/\ stream # "none"
     /\ pc \in {"start_listener", "loop", "get", "kbd_cancel", "kbd_stop",
                "drain", "check", "write"}) =>
        frames \o audio_queue = delivered

\* C20: whenever stop_event is set because of a cancel, cancel_event was set
\* before it; so a controller that saw stop_event set by a cancellation finds
\* cancel_event set when it reads it, and a session ended by SPACE never has
\* cancel_event set.
CancelSetBeforeStop ==
    /\ pc = "kbd_stop" => cancel_event
    /\ (listener = "set_stop" /\ "listener_cancel" \in signals) => cancel_event
    /\ (stop_event /\ ~cancel_event /\ ~TornDown) => "space" \in signals
    /\ (/\ pc \in {"check", "write", "sf_write", "returned"}
        /\ signals \cap CancelSignals # {}
        /\ "space" \notin signals) => cancel_event
    /\ StoppedBySpace => ~cancel_event

\* C20 witness: the controller left the loop on a stop_event set by the
\* listener's cancel and is about to read cancel_event, which is set
CancelSeenAfterStop ==
    /\ pc = "write" /\ signals = {"listener_cancel"}
    /\ stop_event /\ cancel_event
====
